---------------------------- MODULE Spec2Model ----------------------------
(***************************************************************************)
(* A model of gh-hist-to-md.py: the batch job that turns five exported     *)
(* GitHub activity files into one Markdown digest.                         *)
(*                                                                         *)
(* Text is a sequence of one-character strings, so that strip, split,      *)
(* lower, slicing and the rendered lines are computed character by         *)
(* character.  A Python value that may be None is a record                 *)
(* [tag, s]: tag "missing" (the key is not in the dict), "null" (the key   *)
(* holds None) or "str" (the key holds the text s).  A call that can raise *)
(* returns a record [exc, val]: exc names the exception class, "none" when *)
(* the call returned val.                                                  *)
(***************************************************************************)
EXTENDS Integers, Sequences, FiniteSets, TLC

VARIABLES
  isDir,         \* whether args.directory is a directory (dir_path.is_dir())
  include_body,  \* args.include_body
  files,         \* the content of the five input files on disk
  pc,            \* the step main() is at, or the step an exception ended it at
  idx,           \* which of the five files the load / process step is at
  data,          \* commits_data, issues_created_data, ... as loaded
  grouped,       \* commits, issues_created, ... as the classifiers returned them:
                 \* [tag, groups], tag "unset" before the classifier has returned
  markdown,      \* the document generate_markdown returned
  written,       \* the documents written to output_path, in order
  status,        \* the exit status of main(): -1 while running
  exc            \* the uncaught exception that ended the run, "none" if none

vars == <<isDir, include_body, files, pc, idx, data, grouped, markdown,
          written, status, exc>>

-----------------------------------------------------------------------------
(* Characters and text *)

\* The characters the model uses, in code point order (the order Python's
\* str comparison and sorted() use).
Alphabet ==
  <<"\t", "\n", "\r", " ", "#", "(", ")", "+", "-", ".", "/",
    "0", "1", "2", "3", "4", "5", "6", "7", "8", "9", ":", ">",
    "A", "B", "C", "D", "E", "F", "G", "H", "I", "J", "K", "L", "M",
    "N", "O", "P", "Q", "R", "S", "T", "U", "V", "W", "X", "Y", "Z",
    "[", "]", "_",
    "a", "b", "c", "d", "e", "f", "g", "h", "i", "j", "k", "l", "m",
    "n", "o", "p", "q", "r", "s", "t", "u", "v", "w", "x", "y", "z">>

Ord(c) == CHOOSE i \in 1..Len(Alphabet) : Alphabet[i] = c

Upper == <<"A", "B", "C", "D", "E", "F", "G", "H", "I", "J", "K", "L", "M",
           "N", "O", "P", "Q", "R", "S", "T", "U", "V", "W", "X", "Y", "Z">>

Lowers == <<"a", "b", "c", "d", "e", "f", "g", "h", "i", "j", "k", "l", "m",
            "n", "o", "p", "q", "r", "s", "t", "u", "v", "w", "x", "y", "z">>

Digit == <<"0", "1", "2", "3", "4", "5", "6", "7", "8", "9">>

\* str.isspace() on the characters of the alphabet
Whitespace == {" ", "\t", "\n", "\r"}

IsUpper(c) == \E i \in 1..Len(Upper) : Upper[i] = c

LowerChar(c) ==
  IF IsUpper(c) THEN Lowers[CHOOSE i \in 1..Len(Upper) : Upper[i] = c] ELSE c

\* a function on 1..n as the tuple of its values
AsSeq(f) == f \o <<>>

\* str.lower()
Lower(s) == AsSeq([i \in 1..Len(s) |-> LowerChar(s[i])])

\* s[:n]
Take(s, n) == SubSeq(s, 1, IF n < Len(s) THEN n ELSE Len(s))

\* s[n:]   (n counted from 0, as in Python)
Drop(s, n) == SubSeq(s, n + 1, Len(s))

\* s.startswith(p)
StartsWith(s, p) == Len(s) >= Len(p) /\ SubSeq(s, 1, Len(p)) = p

\* s.endswith(p)
EndsWith(s, p) ==
  Len(s) >= Len(p) /\ SubSeq(s, Len(s) - Len(p) + 1, Len(s)) = p

\* str.strip(): drop leading and trailing whitespace
Strip(s) ==
  LET keep == {i \in 1..Len(s) : s[i] \notin Whitespace}
  IN  IF keep = {} THEN <<>>
      ELSE LET lo == CHOOSE i \in keep : \A j \in keep : i <= j
               hi == CHOOSE i \in keep : \A j \in keep : i >= j
           IN  SubSeq(s, lo, hi)

\* str.split('\n'): the pieces between newlines, always at least one piece
SplitLines(s) ==
  LET nl    == {i \in 1..Len(s) : s[i] = "\n"}
      cut   == nl \cup {0, Len(s) + 1}
      nxt(i) == CHOOSE j \in cut : j > i /\ \A k \in cut : k > i => j <= k
      RECURSIVE from(_)
      from(i) == IF i = Len(s) + 1 THEN <<>>
                 ELSE <<SubSeq(s, i + 1, nxt(i) - 1)>> \o from(nxt(i))
  IN  from(0)

RECURSIVE Concat(_)
Concat(ss) == IF ss = <<>> THEN <<>> ELSE Head(ss) \o Concat(Tail(ss))

\* the concatenation of a sequence of sequences
Flatten(ss) == Concat(AsSeq(ss))

\* "\n".join(lines)
JoinLines(lines) ==
  Flatten([i \in 1..Len(lines) |->
             IF i = 1 THEN lines[i] ELSE <<"\n">> \o lines[i]])

\* s < t in Python's str order (lexicographic by code point)
StrLess(s, t) ==
  \E k \in 0..Len(s) :
     /\ k <= Len(t)
     /\ \A i \in 1..k : s[i] = t[i]
     /\ \/ k = Len(s) /\ k < Len(t)
        \/ k < Len(s) /\ k < Len(t) /\ Ord(s[k + 1]) < Ord(t[k + 1])

\* str(n) for n >= 0, zero-padded to at least w digits
RECURSIVE Dec(_, _)
Dec(n, w) ==
  IF n < 10 /\ w <= 1 THEN <<Digit[n + 1]>>
  ELSE Dec(n \div 10, w - 1) \o <<Digit[(n % 10) + 1]>>

IsDigit(c) == \E i \in 1..10 : Digit[i] = c

DigitVal(c) == (CHOOSE i \in 1..10 : Digit[i] = c) - 1

\* int(s) for a text of digits
RECURSIVE Num(_)
Num(s) == IF s = <<>> THEN 0
          ELSE 10 * Num(SubSeq(s, 1, Len(s) - 1)) + DigitVal(s[Len(s)])

AllDigits(s) == \A i \in 1..Len(s) : IsDigit(s[i])

-----------------------------------------------------------------------------
(* Python values that may be None *)

Missing == [tag |-> "missing", s |-> <<>>]
Null    == [tag |-> "null", s |-> <<>>]
Str(s)  == [tag |-> "str", s |-> s]

\* dict.get(key, default) on a field of a JSON object: the default only when
\* the key is absent; a key holding null gives None
Get(field, default) == IF field.tag = "missing" THEN default ELSE field

\* bool(v) for None or a str
Truthy(v) == v.tag = "str" /\ v.s # <<>>

\* str(v) as an f-string renders it
Fmt(v) == IF v.tag = "str" THEN v.s ELSE <<"N", "o", "n", "e">>

Ok(v)     == [exc |-> "none", val |-> v]
Raise(e)  == [exc |-> e, val |-> <<>>]

-----------------------------------------------------------------------------
(* datetime *)

NoDate == [tag |-> "None", year |-> 0, month |-> 0, day |-> 0, hour |-> 0,
           minute |-> 0, second |-> 0, aware |-> FALSE, offset |-> 0]

DateTime(y, mo, d, h, mi, sec, aw, off) ==
  [tag |-> "datetime", year |-> y, month |-> mo, day |-> d, hour |-> h,
   minute |-> mi, second |-> sec, aware |-> aw, offset |-> off]

\* datetime.min
DatetimeMin == DateTime(1, 1, 1, 0, 0, 0, FALSE, 0)

IsLeap(y) == (y % 4 = 0) /\ ((y % 100 # 0) \/ (y % 400 = 0))

DaysInMonth(y, mo) ==
  IF mo = 2 THEN (IF IsLeap(y) THEN 29 ELSE 28)
  ELSE IF mo \in {4, 6, 9, 11} THEN 30 ELSE 31

RECURSIVE DaysBeforeMonth(_, _)
DaysBeforeMonth(y, mo) ==
  IF mo = 1 THEN 0 ELSE DaysBeforeMonth(y, mo - 1) + DaysInMonth(y, mo - 1)

\* date.toordinal(): days since 0001-01-01, which is day 1
Ordinal(y, mo, d) ==
  LET p == y - 1
  IN  365 * p + (p \div 4) - (p \div 100) + (p \div 400)
        + DaysBeforeMonth(y, mo) + d

\* The instant a datetime is compared by, <<day, second of the day>>: its own
\* fields when naive, its fields less its UTC offset when aware.
Instant(dt) ==
  LET secs == dt.hour * 3600 + dt.minute * 60 + dt.second
                - (IF dt.aware THEN dt.offset * 60 ELSE 0)
      days == Ordinal(dt.year, dt.month, dt.day)
  IN  <<days + ((secs + 86400) \div 86400) - 1, (secs + 86400) % 86400>>

\* a < b for two datetimes of the same kind
DtLess(a, b) ==
  LET ia == Instant(a)
      ib == Instant(b)
  IN  ia[1] < ib[1] \/ (ia[1] = ib[1] /\ ia[2] < ib[2])

\* Comparing an offset-naive with an offset-aware datetime raises TypeError.
Comparable(a, b) == a.aware = b.aware

\* iso_string.replace('Z', '+00:00')
ReplaceZ(s) ==
  Flatten([i \in 1..Len(s) |->
             IF s[i] = "Z" THEN <<"+", "0", "0", ":", "0", "0">> ELSE <<s[i]>>])

\* datetime.fromisoformat(s) on the shapes YYYY-MM-DD, YYYY-MM-DD?HH:MM:SS and
\* YYYY-MM-DD?HH:MM:SS(+|-)HH:MM; every other text of the model's inputs is
\* one that fromisoformat rejects with ValueError.
FromIsoformat(s) ==
  LET n      == Len(s)
      dateOk == /\ n >= 10
                /\ AllDigits(SubSeq(s, 1, 4)) /\ s[5] = "-"
                /\ AllDigits(SubSeq(s, 6, 7)) /\ s[8] = "-"
                /\ AllDigits(SubSeq(s, 9, 10))
      y      == Num(SubSeq(s, 1, 4))
      mo     == Num(SubSeq(s, 6, 7))
      d      == Num(SubSeq(s, 9, 10))
      ymdOk  == y >= 1 /\ mo \in 1..12 /\ d >= 1 /\ d <= DaysInMonth(y, mo)
      timeOk == /\ n >= 19
                /\ AllDigits(SubSeq(s, 12, 13)) /\ s[14] = ":"
                /\ AllDigits(SubSeq(s, 15, 16)) /\ s[17] = ":"
                /\ AllDigits(SubSeq(s, 18, 19))
                /\ Num(SubSeq(s, 12, 13)) < 24
                /\ Num(SubSeq(s, 15, 16)) < 60
                /\ Num(SubSeq(s, 18, 19)) < 60
      h      == Num(SubSeq(s, 12, 13))
      mi     == Num(SubSeq(s, 15, 16))
      sec    == Num(SubSeq(s, 18, 19))
      tzOk   == /\ n = 25
                /\ s[20] \in {"+", "-"}
                /\ AllDigits(SubSeq(s, 21, 22)) /\ s[23] = ":"
                /\ AllDigits(SubSeq(s, 24, 25))
                /\ Num(SubSeq(s, 21, 22)) < 24
                /\ Num(SubSeq(s, 24, 25)) < 60
      off    == (IF s[20] = "-" THEN -1 ELSE 1)
                  * (Num(SubSeq(s, 21, 22)) * 60 + Num(SubSeq(s, 24, 25)))
  IN  IF ~dateOk THEN Raise("ValueError")
      ELSE IF ~ymdOk THEN Raise("ValueError")
      ELSE IF n = 10 THEN Ok(DateTime(y, mo, d, 0, 0, 0, FALSE, 0))
      ELSE IF ~timeOk THEN Raise("ValueError")
      ELSE IF n = 19 THEN Ok(DateTime(y, mo, d, h, mi, sec, FALSE, 0))
      ELSE IF ~tzOk THEN Raise("ValueError")
      ELSE Ok(DateTime(y, mo, d, h, mi, sec, TRUE, off))

\* parse_date(iso_string): None for None, "" and every text fromisoformat
\* rejects
parse_date(iso_string) ==
  IF ~Truthy(iso_string) THEN NoDate
  ELSE LET r == FromIsoformat(ReplaceZ(iso_string.s))
       IN  IF r.exc = "ValueError" THEN NoDate ELSE r.val

MonthAbbr ==
  <<<<"J", "a", "n">>, <<"F", "e", "b">>, <<"M", "a", "r">>, <<"A", "p", "r">>,
    <<"M", "a", "y">>, <<"J", "u", "n">>, <<"J", "u", "l">>, <<"A", "u", "g">>,
    <<"S", "e", "p">>, <<"O", "c", "t">>, <<"N", "o", "v">>, <<"D", "e", "c">>>>

\* format_date(dt): dt.strftime("%b %d"), "" for None
format_date(dt) ==
  IF dt.tag = "None" THEN <<>>
  ELSE MonthAbbr[dt.month] \o <<" ">> \o Dec(dt.day, 2)

\* dt.strftime("%Y-%m-%d"), for the years of four digits (below 1000 the C
\* library decides the padding; no input of the model puts such a year here)
FormatYMD(dt) ==
  Dec(dt.year, 4) \o <<"-">> \o Dec(dt.month, 2) \o <<"-">> \o Dec(dt.day, 2)

\* the limits of get_first_line
FIRST_LINE_MAX == 80
FIRST_LINE_KEEP == 77

\* get_first_line cutting at the limit itself: first_line[:80] + "..."
get_first_line_Cut80(text) ==
  IF ~Truthy(text) THEN <<>>
  ELSE LET first_line == Strip(SplitLines(text.s)[1])
       IN  IF Len(first_line) > 80
           THEN Take(first_line, 80) \o <<".", ".", ".">>
           ELSE first_line

\* get_first_line(text): the first line, stripped, cut to 77 characters and
\* "..." when longer than 80
get_first_line(text) ==
  IF ~Truthy(text) THEN <<>>
  ELSE LET first_line == Strip(SplitLines(text.s)[1])
       IN  IF Len(first_line) > FIRST_LINE_MAX
           THEN Take(first_line, FIRST_LINE_KEEP) \o <<".", ".", ".">>
           ELSE first_line

\* format_body splitting the body as it is: body.split('\n')
format_body_NoStrip(body) ==
  IF ~Truthy(body) \/ Strip(body.s) = <<>> THEN <<>>
  ELSE LET ls == SplitLines(body.s)
       IN  AsSeq([i \in 1..Len(ls) |-> <<" ", " ", ">", " ">> \o ls[i]])

\* format_body(body): one "  > " line per line of the stripped body
format_body(body) ==
  IF ~Truthy(body) \/ Strip(body.s) = <<>> THEN <<>>
  ELSE LET ls == SplitLines(Strip(body.s))
       IN  AsSeq([i \in 1..Len(ls) |-> <<" ", " ", ">", " ">> \o ls[i]])

-----------------------------------------------------------------------------
(* The classifiers *)

\* a JSON object field that is absent, null, or an object
NoObj == [tag |-> "missing"]

\* {} as the default of item.get('repository', {})
EmptyRepo == [tag |-> "obj", name |-> Missing, nameWithOwner |-> Missing]

\* {} as the default of item.get('commit', {})
EmptyCommit == [tag |-> "obj", message |-> Missing, author |-> NoObj]

\* {} as the default of commit.get('author', {})
EmptyAuthor == [tag |-> "obj", date |-> Missing]

GetObj(field, default) == IF field.tag = "missing" THEN default ELSE field

unknown == <<"u", "n", "k", "n", "o", "w", "n">>

\* x['date'] or datetime.min
SortKey(x) == IF x.date.tag = "None" THEN DatetimeMin ELSE x.date

\* Whether list.sort raises: it compares keys pairwise, and the first key of
\* the other kind that meets the keys before it is compared with one of them,
\* so the sort raises TypeError exactly when the list holds an offset-naive
\* and an offset-aware key.
SortRaises(items) ==
  \E i, j \in 1..Len(items) : ~Comparable(SortKey(items[i]), SortKey(items[j]))

\* One step of the stable descending sort: x, which came after everything in
\* sorted, goes behind every element whose key is not smaller than its own.
InsertDesc(sorted, x) ==
  LET before == {i \in 1..Len(sorted) : ~DtLess(SortKey(sorted[i]), SortKey(x))}
      k      == IF before = {} THEN 0
                ELSE CHOOSE i \in before : \A j \in before : j <= i
  IN  SubSeq(sorted, 1, k) \o <<x>> \o SubSeq(sorted, k + 1, Len(sorted))

RECURSIVE SortDesc(_)
\* items.sort(key=lambda x: x['date'] or datetime.min, reverse=True), for a
\* list whose keys are comparable: stable, newest first
SortDesc(items) ==
  IF items = <<>> THEN <<>>
  ELSE InsertDesc(SortDesc(SubSeq(items, 1, Len(items) - 1)), items[Len(items)])

\* The keys of a defaultdict in insertion order: each repo where it first
\* appears among the appended pairs.
RECURSIVE KeysInOrder(_)
KeysInOrder(pairs) ==
  IF pairs = <<>> THEN <<>>
  ELSE LET init == KeysInOrder(SubSeq(pairs, 1, Len(pairs) - 1))
           r    == pairs[Len(pairs)].repo
       IN  IF \E i \in 1..Len(init) : init[i] = r THEN init ELSE Append(init, r)

\* the records appended to grouped[repo], in the order they were appended
RECURSIVE ItemsOf(_, _)
ItemsOf(pairs, r) ==
  IF pairs = <<>> THEN <<>>
  ELSE IF Head(pairs).repo = r
       THEN <<Head(pairs).rec>> \o ItemsOf(Tail(pairs), r)
       ELSE ItemsOf(Tail(pairs), r)

\* grouped after the loop: a dict in insertion order, as a sequence of
\* [repo, items]
GroupBy(pairs) ==
  LET ks == KeysInOrder(pairs)
  IN  AsSeq([i \in 1..Len(ks) |->
               [repo |-> ks[i], items |-> ItemsOf(pairs, ks[i])]])

\* for repo in grouped: grouped[repo].sort(...)
SortGroups(g) ==
  IF \E i \in 1..Len(g) : SortRaises(g[i].items) THEN Raise("TypeError")
  ELSE Ok(AsSeq([i \in 1..Len(g) |->
                   [repo |-> g[i].repo, items |-> SortDesc(g[i].items)]]))

\* lines 63-71: one commit item
CommitRecord(item) ==
  LET repository == GetObj(item.repository, EmptyRepo)
      commit     == GetObj(item.commit, EmptyCommit)
  IN  IF repository.tag = "null" \/ commit.tag = "null"
      THEN Raise("AttributeError")
      ELSE LET author == GetObj(commit.author, EmptyAuthor)
           IN  IF author.tag = "null" THEN Raise("AttributeError")
               ELSE Ok([repo |-> Get(repository.name, Str(unknown)),
                        rec  |-> [date    |-> parse_date(Get(author.date, Null)),
                                  message |-> get_first_line(
                                                Get(commit.message, Str(<<>>)))]])

\* item.get('repository', {}).get('nameWithOwner',
\*     item.get('repository', {}).get('name', 'unknown'))
RepoOf(repository) ==
  Get(repository.nameWithOwner, Get(repository.name, Str(unknown)))

\* lines 82-91: one issue item
IssueRecord(item) ==
  LET repository == GetObj(item.repository, EmptyRepo)
      state      == Get(item.state, Str(<<>>))
  IN  IF repository.tag = "null" \/ state.tag = "null"
      THEN Raise("AttributeError")
      ELSE Ok([repo |-> RepoOf(repository),
               rec  |-> [title |-> Get(item.title, Str(<<>>)),
                         state |-> Lower(state.s),
                         date  |-> parse_date(Get(item.createdAt, Null)),
                         url   |-> Get(item.url, Str(<<>>)),
                         body  |-> Get(item.body, Str(<<>>))]])

\* IsMerged as a prefix test: .lower().startswith('merged')
IsMerged_Prefix(state) == StartsWith(Lower(state), <<"m", "e", "r", "g", "e", "d">>)

\* item.get('state', '').lower() == 'merged'
IsMerged(state) == Lower(state) = <<"m", "e", "r", "g", "e", "d">>

\* lines 102-112: one pull request item
PrRecord(item) ==
  LET repository == GetObj(item.repository, EmptyRepo)
      state      == Get(item.state, Str(<<>>))
  IN  IF repository.tag = "null" \/ state.tag = "null"
      THEN Raise("AttributeError")
      ELSE Ok([repo |-> RepoOf(repository),
               rec  |-> [title  |-> Get(item.title, Str(<<>>)),
                         state  |-> Lower(state.s),
                         date   |-> parse_date(Get(item.createdAt, Null)),
                         url    |-> Get(item.url, Str(<<>>)),
                         merged |-> IsMerged(state.s),
                         body   |-> Get(item.body, Str(<<>>))]])

\* A classifier: the loop over data that appends one record per item, then
\* the sort of each group.  Iterating a JSON object yields its keys, which
\* have no .get; the first item that raises ends the loop.
Classify(d, rs) ==
  IF d.tag = "dict" THEN Raise("AttributeError")
  ELSE IF \E i \in 1..Len(rs) : rs[i].exc # "none"
       THEN Raise(rs[CHOOSE i \in 1..Len(rs) :
                       rs[i].exc # "none"
                       /\ \A j \in 1..(i - 1) : rs[j].exc = "none"].exc)
       ELSE SortGroups(GroupBy(AsSeq([i \in 1..Len(rs) |-> rs[i].val])))

process_commits(d) ==
  Classify(d, AsSeq([i \in 1..Len(d.items) |-> CommitRecord(d.items[i])]))

process_issues(d) ==
  Classify(d, AsSeq([i \in 1..Len(d.items) |-> IssueRecord(d.items[i])]))

process_prs(d) ==
  Classify(d, AsSeq([i \in 1..Len(d.items) |-> PrRecord(d.items[i])]))

-----------------------------------------------------------------------------
(* The renderer *)

\* min(all_dates) / max(all_dates): the first smallest / largest element;
\* TypeError when an offset-naive meets an offset-aware datetime
RECURSIVE MinDate(_)
MinDate(ds) ==
  IF Len(ds) = 1 THEN ds[1]
  ELSE LET m == MinDate(SubSeq(ds, 1, Len(ds) - 1))
       IN  IF DtLess(ds[Len(ds)], m) THEN ds[Len(ds)] ELSE m

RECURSIVE MaxDate(_)
MaxDate(ds) ==
  IF Len(ds) = 1 THEN ds[1]
  ELSE LET m == MaxDate(SubSeq(ds, 1, Len(ds) - 1))
       IN  IF DtLess(m, ds[Len(ds)]) THEN ds[Len(ds)] ELSE m

\* [i['date'] for i in repo_items if i['date']] over the groups of g
DatesOf(g) ==
  Flatten([k \in 1..Len(g) |->
    Flatten([i \in 1..Len(g[k].items) |->
      IF g[k].items[i].date.tag = "None" THEN <<>>
      ELSE <<g[k].items[i].date>>])])

\* AllDates with a third loop, over the pull requests created
AllDates_WithPrs(commits, issues_created, issues_commented, prs_created, prs_reviewed) ==
  DatesOf(commits) \o DatesOf(issues_created) \o DatesOf(prs_created)

\* lines 133-137: all_dates, the dates the period is computed from
AllDates(commits, issues_created, issues_commented, prs_created, prs_reviewed) ==
  DatesOf(commits) \o DatesOf(issues_created)

\* lines 139-144
Period(all_dates) ==
  IF all_dates = <<>> THEN Ok(<<"u", "n", "k", "n", "o", "w", "n">>)
  ELSE IF \E i, j \in 1..Len(all_dates) : ~Comparable(all_dates[i], all_dates[j])
       THEN Raise("TypeError")
       ELSE Ok(FormatYMD(MinDate(all_dates)) \o <<" ", "t", "o", " ">>
                 \o FormatYMD(MaxDate(all_dates)))

\* Total counting the repositories: len(g)
Total_Groups(g) == Len(g)

\* sum(len(items) for items in g.values())
RECURSIVE Total(_)
Total(g) == IF g = <<>> THEN 0 ELSE Len(Head(g).items) + Total(Tail(g))

\* sorted(g.keys()): str keys in code point order; None does not compare
\* with a str
KeyLess(a, b) == StrLess(a.s, b.s)

\* SortedKeys without the sort: for repo in g.keys()
SortedKeys_Unsorted(g) == Ok(g)

SortedKeys(g) ==
  IF Len(g) >= 2 /\ \E i \in 1..Len(g) : g[i].repo.tag # "str"
  THEN Raise("TypeError")
  ELSE Ok(AsSeq([k \in 1..Len(g) |->
             g[CHOOSE i \in 1..Len(g) :
                 Cardinality({j \in 1..Len(g) : KeyLess(g[j].repo, g[i].repo)})
                   = k - 1]]))

\* f" ({date_str})" if date_str else ""
DatePart(item) ==
  LET date_str == format_date(item.date)
  IN  IF date_str # <<>> THEN <<" ", "(">> \o date_str \o <<")">> ELSE <<>>

\* f" [{item['state']}]" if item['state'] else ""
StatePart(item) ==
  IF item.state # <<>> THEN <<" ", "[">> \o item.state \o <<"]">> ELSE <<>>

\* lines 174-176
CommitLines(item, with_body) == <<<<"-", " ">> \o item.message \o DatePart(item)>>

\* lines 189-194
IssueCreatedLines(item, with_body) ==
  <<<<"-", " ">> \o Fmt(item.title) \o DatePart(item) \o StatePart(item)>>
    \o (IF with_body THEN format_body(item.body) ELSE <<>>)

\* lines 207-208 and 242-243
CommentedLines(item, with_body) ==
  <<<<"-", " ">> \o Fmt(item.title) \o StatePart(item)>>

\* lines 223-226
PrTag(item) == IF item.merged THEN <<" ", "[", "m", "e", "r", "g", "e", "d", "]">> ELSE StatePart(item)

\* lines 221-229
PrCreatedLines(item, with_body) ==
  <<<<"-", " ">> \o Fmt(item.title) \o DatePart(item) \o PrTag(item)>>
    \o (IF with_body THEN format_body(item.body) ELSE <<>>)

\* the lines of one item of section k
ItemLines(k, item, with_body) ==
  CASE k = 1 -> CommitLines(item, with_body)
    [] k = 2 -> IssueCreatedLines(item, with_body)
    [] k = 4 -> PrCreatedLines(item, with_body)
    [] OTHER -> CommentedLines(item, with_body)

\* Section k: its heading with the total, then "None" for an empty dict, or
\* per repository in sorted order a subheading, the lines of its items and a
\* blank line.
Section(k, title, total, g, with_body) ==
  LET head == <<<<"#", "#", " ">> \o title \o <<" ", "(">> \o Dec(total, 1) \o <<")">>, <<>>>>
      ks   == SortedKeys(g)
  IN  IF g = <<>> THEN Ok(head \o <<<<"N", "o", "n", "e">>, <<>>>>)
      ELSE IF ks.exc # "none" THEN ks
      ELSE Ok(head \o
             Flatten([r \in 1..Len(ks.val) |->
               <<<<"#", "#", "#", " ">> \o Fmt(ks.val[r].repo)>>
                 \o Flatten([i \in 1..Len(ks.val[r].items) |->
                               ItemLines(k, ks.val[r].items[i], with_body)])
                 \o <<<<>>>>]))

\* lines 154-165: the frontmatter and the title
Frontmatter(period, dir_name, t1, t2, t3, t4, t5) ==
  << <<"-", "-", "-">>,
     <<"p", "e", "r", "i", "o", "d", ":", " ">> \o period,
     <<"s", "o", "u", "r", "c", "e", ":", " ">> \o dir_name,
     <<"c", "o", "m", "m", "i", "t", "s", ":", " ">> \o Dec(t1, 1),
     <<"i", "s", "s", "u", "e", "s", "_", "c", "r", "e", "a", "t", "e", "d", ":", " ">> \o Dec(t2, 1),
     <<"i", "s", "s", "u", "e", "s", "_", "c", "o", "m", "m", "e", "n", "t", "e", "d", ":", " ">> \o Dec(t3, 1),
     <<"p", "r", "s", "_", "c", "r", "e", "a", "t", "e", "d", ":", " ">> \o Dec(t4, 1),
     <<"p", "r", "s", "_", "r", "e", "v", "i", "e", "w", "e", "d", ":", " ">> \o Dec(t5, 1),
     <<"-", "-", "-">>,
     <<>>,
     <<"#", " ", "W", "e", "e", "k", "l", "y", " ", "G", "i", "t", "H", "u", "b", " ", "A", "c", "t", "i", "v", "i", "t", "y">>,
     <<>> >>

\* generate_markdown(...): the document, or the exception it raises
generate_markdown(commits, issues_created, issues_commented, prs_created, prs_reviewed, dir_name, with_body) ==
  LET period == Period(AllDates(commits, issues_created, issues_commented,
                                prs_created, prs_reviewed))
      total_commits          == Total(commits)
      total_issues_created   == Total(issues_created)
      total_issues_commented == Total(issues_commented)
      total_prs_created      == Total(prs_created)
      total_prs_reviewed     == Total(prs_reviewed)
      s1 == Section(1, <<"C", "o", "m", "m", "i", "t", "s">>, total_commits, commits, with_body)
      s2 == Section(2, <<"I", "s", "s", "u", "e", "s", " ", "C", "r", "e", "a", "t", "e", "d">>, total_issues_created, issues_created,
                    with_body)
      s3 == Section(3, <<"I", "s", "s", "u", "e", "s", " ", "C", "o", "m", "m", "e", "n", "t", "e", "d">>, total_issues_commented,
                    issues_commented, with_body)
      s4 == Section(4, <<"P", "R", "s", " ", "C", "r", "e", "a", "t", "e", "d">>, total_prs_created, prs_created,
                    with_body)
      s5 == Section(5, <<"P", "R", "s", " ", "R", "e", "v", "i", "e", "w", "e", "d">>, total_prs_reviewed, prs_reviewed,
                    with_body)
      ss == <<period, s1, s2, s3, s4, s5>>
  IN  IF \E i \in 1..6 : ss[i].exc # "none"
      THEN Raise(ss[CHOOSE i \in 1..6 : ss[i].exc # "none"
                      /\ \A j \in 1..(i - 1) : ss[j].exc = "none"].exc)
      ELSE Ok(JoinLines(
             Frontmatter(period.val, dir_name, total_commits,
                         total_issues_created, total_issues_commented,
                         total_prs_created, total_prs_reviewed)
               \o s1.val \o s2.val \o s3.val \o s4.val \o s5.val))

-----------------------------------------------------------------------------
(* The loader and main() *)

\* the five files main() reads, in the order it loads and processes them
FileOrder ==
  <<"commits", "issues_created", "issues_commented", "prs_created",
    "prs_reviewed">>

Files == {FileOrder[i] : i \in 1..Len(FileOrder)}

\* A file on disk: kind "missing" (no such file), "unreadable" (open is
\* denied), "empty" (zero bytes), "malformed" (not JSON), "null" (the JSON
\* null), "dict" (a non-empty JSON object) or "list" (a JSON array of items).
File(kind, items) == [kind |-> kind, items |-> items]

\* open(filepath)
Open(file) ==
  IF file.kind = "missing" THEN Raise("FileNotFoundError")
  ELSE IF file.kind = "unreadable" THEN Raise("PermissionError")
  ELSE Ok(file)

\* json.load(f): the parsed value, as [tag, items]
JsonLoad(file) ==
  IF file.kind \in {"empty", "malformed"} THEN Raise("JSONDecodeError")
  ELSE IF file.kind = "null" THEN Ok([tag |-> "null", items |-> <<>>])
  ELSE IF file.kind = "dict" THEN Ok([tag |-> "dict", items |-> <<>>])
  ELSE Ok([tag |-> "list", items |-> file.items])

\* except (FileNotFoundError, json.JSONDecodeError)
LoadCaught == {"FileNotFoundError", "JSONDecodeError"}

EmptyList == [tag |-> "list", items |-> <<>>]

\* data if data else []: None and the empty list are falsy, a non-empty
\* object is not
OrEmptyList(d) ==
  IF d.tag = "null" \/ (d.tag = "list" /\ d.items = <<>>) THEN EmptyList ELSE d

\* load_json(filepath)
load_json(file) ==
  LET f == Open(file)
      d == JsonLoad(file)
      r == IF f.exc # "none" THEN f ELSE d
  IN  IF r.exc = "none" THEN Ok(OrEmptyList(r.val))
      ELSE IF r.exc \in LoadCaught THEN Ok(EmptyList)
      ELSE r

\* the classifier main() applies to each file's data (lines 274-278)
Process(f, d) ==
  IF f = "commits" THEN process_commits(d)
  ELSE IF f \in {"issues_created", "issues_commented"} THEN process_issues(d)
  ELSE process_prs(d)

\* dir_path.name
dir_name == <<"g", "h", "_", "2", "0", "2", "5">>

NotLoaded == [tag |-> "unset", items |-> <<>>]

\* An uncaught exception ends the process where it stands, with a traceback
\* and status 1.
Abort(e) ==
  /\ pc' = pc
  /\ exc' = e
  /\ status' = 1

\* CheckDir without the early return: the run goes on to load the files of a
\* path that is no directory.
CheckDir_NoReturn ==
  /\ pc = "start" /\ exc = "none"
  /\ pc' = "load" /\ idx' = 1 /\ status' = status
  /\ UNCHANGED <<isDir, include_body, files, data, grouped, markdown, written,
                 exc>>

\* lines 261-264
CheckDir ==
  /\ pc = "start" /\ exc = "none"
  /\ IF isDir
     THEN pc' = "load" /\ idx' = 1 /\ status' = status
     ELSE pc' = "exit" /\ idx' = idx /\ status' = 1
  /\ UNCHANGED <<isDir, include_body, files, data, grouped, markdown, written,
                 exc>>

\* lines 267-271: the next of the five load_json calls
LoadJson ==
  /\ pc = "load" /\ exc = "none"
  /\ LET f == FileOrder[idx]
         r == load_json(files[f])
     IN  IF r.exc # "none"
         THEN Abort(r.exc) /\ UNCHANGED <<idx, data>>
         ELSE /\ data' = [data EXCEPT ![f] = r.val]
              /\ IF idx < Len(FileOrder)
                 THEN idx' = idx + 1 /\ pc' = "load"
                 ELSE idx' = 1 /\ pc' = "process"
              /\ UNCHANGED <<status, exc>>
  /\ UNCHANGED <<isDir, include_body, files, grouped, markdown, written>>

\* lines 274-278: the next of the five classifier calls
ProcessData ==
  /\ pc = "process" /\ exc = "none"
  /\ LET f == FileOrder[idx]
         r == Process(f, data[f])
     IN  IF r.exc # "none"
         THEN Abort(r.exc) /\ UNCHANGED <<idx, grouped>>
         ELSE /\ grouped' = [grouped EXCEPT
                               ![f] = [tag |-> "dict", groups |-> r.val]]
              /\ IF idx < Len(FileOrder)
                 THEN idx' = idx + 1 /\ pc' = "process"
                 ELSE idx' = 1 /\ pc' = "generate"
              /\ UNCHANGED <<status, exc>>
  /\ UNCHANGED <<isDir, include_body, files, data, markdown, written>>

\* lines 281-285
Generate ==
  /\ pc = "generate" /\ exc = "none"
  /\ LET r == generate_markdown(grouped["commits"].groups,
                                grouped["issues_created"].groups,
                                grouped["issues_commented"].groups,
                                grouped["prs_created"].groups,
                                grouped["prs_reviewed"].groups,
                                dir_name, include_body)
     IN  IF r.exc # "none"
         THEN Abort(r.exc) /\ UNCHANGED markdown
         ELSE markdown' = r.val /\ pc' = "write" /\ UNCHANGED <<status, exc>>
  /\ UNCHANGED <<isDir, include_body, files, idx, data, grouped, written>>

\* lines 288-289: output_path.write_text(markdown)
WriteOutput ==
  /\ pc = "write" /\ exc = "none"
  /\ written' = Append(written, markdown)
  /\ pc' = "report"
  /\ UNCHANGED <<isDir, include_body, files, idx, data, grouped, markdown,
                 status, exc>>

\* lines 290-292: print the path, return 0
Return0 ==
  /\ pc = "report" /\ exc = "none"
  /\ status' = 0
  /\ pc' = "exit"
  /\ UNCHANGED <<isDir, include_body, files, idx, data, grouped, markdown,
                 written, exc>>

Next ==
  \/ CheckDir
  \/ LoadJson
  \/ ProcessData
  \/ Generate
  \/ WriteOutput
  \/ Return0

\* the state main() starts in, for the files of a directory
Start(fs) ==
  /\ files = fs
  /\ pc = "start"
  /\ idx = 0
  /\ data = [f \in Files |-> NotLoaded]
  /\ grouped = [f \in Files |-> [tag |-> "unset", groups |-> <<>>]]
  /\ markdown = <<>>
  /\ written = <<>>
  /\ status = -1
  /\ exc = "none"

-----------------------------------------------------------------------------
(* Input files *)

\* every sequence of at most n elements of S
SeqsUpTo(S, n) == UNION {[1..k -> S] : k \in 0..n}

\* {"repository": {"name": name}, "commit": {"message": message,
\*  "author": {"date": date}}}
Commit(name, message, date) ==
  [repository |-> [tag |-> "obj", name |-> name, nameWithOwner |-> Missing],
   commit     |-> [tag |-> "obj", message |-> message,
                   author |-> [tag |-> "obj", date |-> date]]]

\* {"repository": {"nameWithOwner": nwo}, "title": ..., "state": ...,
\*  "createdAt": ..., "url": ..., "body": ...}
Issue(nwo, title, state, createdAt, body) ==
  [repository |-> [tag |-> "obj", name |-> Missing, nameWithOwner |-> nwo],
   title |-> title, state |-> state, createdAt |-> createdAt,
   url |-> Str(<<"u">>), body |-> body]

\* an item whose "repository" key is absent or null
NoRepo(item, tag) == [item EXCEPT !.repository = [tag |-> tag]]

MaxItems == 2

\* commits.json of the whole-run specification
MainCommits ==
  { Commit(Str(<<"l", "i", "b">>), Str(<<"F", "i", "x", " ", "b", "u", "g", "\n", "D", "e", "t", "a", "i", "l", "s">>), Str(<<"2", "0", "2", "5", "-", "1", "1", "-", "2", "0", "T", "1", "0", ":", "0", "0", ":", "0", "0", "Z">>)),
    Commit(Str(<<"a", "p", "p">>), Str(<<"A", "d", "d", " ", "x">>), Str(<<"2", "0", "2", "5", "-", "1", "1", "-", "1", "8", "T", "0", "9", ":", "3", "0", ":", "0", "0", "Z">>)),
    Commit(Str(<<"l", "i", "b">>), Str(<<"w", "i", "p">>), Missing) }

I1 == Issue(Str(<<"o", "r", "g", "/", "w", "e", "b">>), Str(<<"C", "r", "a", "s", "h">>), Str(<<"O", "P", "E", "N">>),
            Str(<<"2", "0", "2", "5", "-", "1", "1", "-", "2", "5", "T", "0", "8", ":", "0", "0", ":", "0", "0", "Z">>), Str(<<"l", "i", "n", "e", "1", "\n", "l", "i", "n", "e", "2">>))
I2 == Issue(Str(<<"o", "r", "g", "/", "a", "p", "i">>), Str(<<"D", "o", "c", "s">>), Str(<<"C", "L", "O", "S", "E", "D">>),
            Str(<<"2", "0", "2", "5", "-", "1", "1", "-", "1", "2", "T", "2", "3", ":", "0", "0", ":", "0", "0", "-", "0", "5", ":", "0", "0">>), Str(<<>>))
I3 == Issue(Str(<<"O", "r", "g", "/", "a", "p", "i">>), Str(<<"T", "y", "p", "o">>), Missing,
            Str(<<"2", "0", "2", "5", "-", "1", "1", "-", "1", "4">>), Missing)
I4 == NoRepo(Issue(Missing, Str(<<"O", "l", "d">>), Str(<<"o", "p", "e", "n">>), Str(<<"n", "o", "t", " ", "a", " ", "d", "a", "t", "e">>), Null),
             "missing")
P1 == Issue(Str(<<"o", "r", "g", "/", "w", "e", "b">>), Str(<<"F", "e", "a", "t">>), Str(<<"M", "E", "R", "G", "E", "D">>),
            Str(<<"2", "0", "2", "5", "-", "1", "2", "-", "0", "1", "T", "1", "0", ":", "0", "0", ":", "0", "0", "Z">>), Str(<<" ", " ", "\n", "w", "h", "y", "\n">>))
P2 == Issue(Str(<<"o", "r", "g">>), Str(<<"F", "i", "x">>), Str(<<"O", "P", "E", "N">>),
            Str(<<"2", "0", "2", "5", "-", "1", "0", "-", "0", "1", "T", "1", "0", ":", "0", "0", ":", "0", "0", "Z">>), Str(<<"b">>))
P3 == Issue(Str(<<"o", "r", "g", "-", "x">>), Str(<<"B", "u", "m", "p">>), Str(<<"c", "l", "o", "s", "e", "d">>), Null, Str(<<" ">>))
P4 == Issue(Str(<<"o", "r", "g", "/", "o", "l", "d">>), Str(<<"U", "n", "d", "a", "t", "e", "d">>), Str(<<"o", "p", "e", "n">>), Missing, Missing)
P5 == Issue(Str(<<"o", "r", "g", "/", "o", "l", "d">>), Str(<<"F", "i", "r", "s", "t">>), Str(<<"o", "p", "e", "n">>),
            Str(<<"0", "0", "0", "1", "-", "0", "1", "-", "0", "1", "T", "0", "0", ":", "0", "0", ":", "0", "0">>), Missing)

MainFiles ==
  [ commits          : {File("missing", <<>>), File("empty", <<>>),
                        File("unreadable", <<>>)}
                         \cup {File("list", l) : l \in SeqsUpTo(MainCommits, MaxItems)},
    issues_created   : {File("missing", <<>>), File("list", <<I1, I2, I4>>),
                        File("list", <<I3>>)},
    issues_commented : {File("dict", <<>>), File("list", <<I1, I3, I2>>)},
    prs_created      : {File("null", <<>>), File("list", <<P1>>),
                        File("list", <<P3, P1, P2>>)},
    prs_reviewed     : {File("missing", <<>>), File("list", <<P1, P2>>),
                        File("list", <<P4, P5>>)} ]

NoFiles == [f \in Files |-> File("missing", <<>>)]

\* The run on a path that is not a directory, and every run on a directory
\* holding files of MainFiles.
Init ==
  /\ \/ isDir = FALSE /\ include_body = FALSE /\ Start(NoFiles)
     \/ /\ isDir = TRUE
        /\ include_body \in BOOLEAN
        /\ \E fs \in MainFiles : Start(fs)

Spec == Init /\ [][Next]_vars

\* n spaces
Spaces(n) == [i \in 1..n |-> " "]

\* n letters, a b c ... z a b ..., so that every cut of it differs
Letters(n) == [i \in 1..n |-> Lowers[((i - 1) % 26) + 1]]

\* a commit message: a first line of n letters between lead and trail spaces
\* and, with rest, a second line
Message(lead, n, trail, rest) ==
  Str(Spaces(lead) \o Letters(n) \o Spaces(trail)
        \o (IF rest THEN <<"\n", "s", "e", "c", "o", "n", "d", " ", "l", "i", "n", "e">> ELSE <<>>))

MaxLong == 2

\* commits.json of the commit message specification: first lines around the
\* limits of 77 and 80 characters, bare and padded with spaces, all in one
\* repository, most without a date
LongCommits ==
  {Commit(Str(<<"l", "i", "b">>), m, Missing) :
     m \in {Message(0, 80, 0, FALSE), Message(0, 81, 0, FALSE),
            Message(0, 77, 0, TRUE), Message(0, 90, 0, TRUE),
            Message(2, 80, 1, FALSE), Message(2, 81, 0, TRUE),
            Message(1, 79, 2, FALSE), Message(3, 0, 0, TRUE),
            Message(0, 3, 0, FALSE), Str(<<>>), Null, Missing}}
    \cup {Commit(Str(<<"l", "i", "b">>), Message(0, 85, 0, FALSE), Str(<<"2", "0", "2", "5", "-", "1", "1", "-", "2", "0", "T", "1", "0", ":", "0", "0", ":", "0", "0">>))}

\* The runs on a directory that holds only a commits.json of LongCommits.
InitCommits ==
  /\ isDir = TRUE
  /\ include_body = FALSE
  /\ \E l \in SeqsUpTo(LongCommits, MaxLong) :
       Start([NoFiles EXCEPT !["commits"] = File("list", l)])

SpecCommits == InitCommits /\ [][Next]_vars

\* a pull request or issue of repository org/web, created in November 2025
\* on the given day (two digits), with a UTC date
Dated(title, state, day, body) ==
  Issue(Str(<<"o", "r", "g", "/", "w", "e", "b">>), Str(title), state,
        Str(<<"2", "0", "2", "5", "-", "1", "1", "-">> \o day \o <<"T", "1", "0", ":", "0", "0", ":", "0", "0", "Z">>), body)

MaxPrs == 2

\* prs_created.json of the pull request specification: the spellings of the
\* state and the shapes of the body
PrItems ==
  { Dated(<<"P", "R", "1">>, Str(<<"M", "E", "R", "G", "E", "D">>), <<"0", "1">>, Str(<<"l", "i", "n", "e", "1", "\n", "l", "i", "n", "e", "2">>)),
    Dated(<<"P", "R", "2">>, Str(<<"m", "e", "r", "g", "e", "d", "_", "w", "i", "t", "h", "_", "c", "o", "n", "f", "l", "i", "c", "t", "s">>), <<"0", "2">>, Str(<<" ", "\n", "\t">>)),
    Dated(<<"P", "R", "3">>, Str(<<"M", "e", "r", "g", "e", "d">>), <<"0", "3">>, Str(<<"\n", "\n", " ", " ", "f", "i", "r", "s", "t", "\n", "\n", "l", "a", "s", "t", " ", "\n">>)),
    Dated(<<"P", "R", "4">>, Str(<<"u", "n", "m", "e", "r", "g", "e", "d">>), <<"0", "4">>, Null),
    Dated(<<"P", "R", "5">>, Missing, <<"0", "5">>, Missing),
    Dated(<<"P", "R", "6">>, Str(<<"m", "e", "r", "g", "e", "d", " ">>), <<"0", "6">>, Str(<<>>)),
    Issue(Str(<<"o", "r", "g", "/", "a", "p", "i">>), Str(<<"P", "R", "7">>), Str(<<"O", "P", "E", "N">>), Missing, Str(<<"x">>)) }

PrFiles ==
  [ commits          : {File("list", <<Commit(Str(<<"l", "i", "b">>), Str(<<" ", " ", ">", " ", "q", "u", "o", "t", "e", "d">>),
                                              Missing)>>)},
    issues_created   : {File("missing", <<>>),
                        File("list", <<Dated(<<"I", "S", "1">>, Str(<<"O", "P", "E", "N">>), <<"0", "7">>,
                                             Str(<<"a", "\n", "\n", "b">>)),
                                       Dated(<<"I", "S", "2">>, Str(<<"m", "e", "r", "g", "e", "d">>), <<"0", "8">>,
                                             Str(<<" ", " ">>))>>)},
    issues_commented : {File("list", <<Dated(<<"I", "C", "1">>, Str(<<"o", "p", "e", "n">>), <<"0", "9">>,
                                             Str(<<"h", "i", "d", "d", "e", "n">>))>>)},
    prs_created      : {File("list", l) : l \in SeqsUpTo(PrItems, MaxPrs)},
    prs_reviewed     : {File("missing", <<>>),
                        File("list", <<Dated(<<"R", "V", "1">>, Str(<<"m", "E", "r", "G", "e", "D">>), <<"1", "0">>,
                                             Str(<<"h", "i", "d", "d", "e", "n">>)),
                                       Dated(<<"R", "V", "2">>, Str(<<"m", "e", "r", "g", "e", "d", "_", "w", "i", "t", "h", "_", "c", "o", "n", "f", "l", "i", "c", "t", "s">>),
                                             <<"1", "1">>, Str(<<"h", "i", "d", "d", "e", "n">>)),
                                       Dated(<<"R", "V", "3">>, Str(<<>>), <<"1", "2">>, Null)>>)} ]

\* The runs on a directory holding files of PrFiles, with and without
\* --include-body.
InitPrs ==
  /\ isDir = TRUE
  /\ include_body \in BOOLEAN
  /\ \E fs \in PrFiles : Start(fs)

SpecPrs == InitPrs /\ [][Next]_vars

-----------------------------------------------------------------------------
(* Reading the document back *)

\* a document has been rendered (an empty markdown is never rendered)
Rendered == markdown # <<>>

\* main() has ended: it returned, or an exception ended it
Ended == pc = "exit" \/ exc # "none"

SectionTitles ==
  <<<<"C", "o", "m", "m", "i", "t", "s">>, <<"I", "s", "s", "u", "e", "s", " ", "C", "r", "e", "a", "t", "e", "d">>, <<"I", "s", "s", "u", "e", "s", " ", "C", "o", "m", "m", "e", "n", "t", "e", "d">>, <<"P", "R", "s", " ", "C", "r", "e", "a", "t", "e", "d">>,
    <<"P", "R", "s", " ", "R", "e", "v", "i", "e", "w", "e", "d">>>>

\* the keys of the metadata block, in the order of FileOrder
MetaKeys ==
  <<<<"c", "o", "m", "m", "i", "t", "s">>, <<"i", "s", "s", "u", "e", "s", "_", "c", "r", "e", "a", "t", "e", "d">>, <<"i", "s", "s", "u", "e", "s", "_", "c", "o", "m", "m", "e", "n", "t", "e", "d">>, <<"p", "r", "s", "_", "c", "r", "e", "a", "t", "e", "d">>,
    <<"p", "r", "s", "_", "r", "e", "v", "i", "e", "w", "e", "d">>>>

\* the line number of the heading of section k among the lines ls
HeadingAt(ls, k) ==
  CHOOSE i \in 1..Len(ls) :
    StartsWith(ls[i], <<"#", "#", " ">> \o SectionTitles[k] \o <<" ", "(">>)

\* The document read back: its lines, the line of each section heading and
\* the lines of each section below its heading.
Doc ==
  LET ls == SplitLines(markdown)
      hs == AsSeq([k \in 1..5 |-> HeadingAt(ls, k)])
  IN  [lines    |-> ls,
       headings |-> AsSeq([k \in 1..5 |-> ls[hs[k]]]),
       sections |-> AsSeq([k \in 1..5 |->
                      SubSeq(ls, hs[k] + 1,
                             IF k < 5 THEN hs[k + 1] - 1 ELSE Len(ls))])]

\* the total the heading h of section k shows, as text
HeadingTotal(h, k) == SubSeq(h, Len(SectionTitles[k]) + 6, Len(h) - 1)

\* the value of a key of the metadata block, as text
MetaValue(ls, key) ==
  LET i == CHOOSE j \in 2..8 : StartsWith(ls[j], key \o <<":", " ">>)
  IN  Drop(ls[i], Len(key) + 2)

WithPrefix(ls, p) == SelectSeq(ls, LAMBDA l : StartsWith(l, p))

\* the repository identifiers of the subheadings of a section, in order
Subheadings(body) ==
  LET hs == WithPrefix(body, <<"#", "#", "#", " ">>)
  IN  AsSeq([i \in 1..Len(hs) |-> Drop(hs[i], 4)])

RecordLines(body) == WithPrefix(body, <<"-", " ">>)

BodyLines(body) == WithPrefix(body, <<" ", " ", ">", " ">>)

\* the items of file k as loaded
Loaded(k) == data[FileOrder[k]].items

\* the repository identifier the fallback chain gives an item: nameWithOwner
\* (issues and pull requests only), then name, then "unknown"
RepoId(k, item) ==
  LET r == item.repository
  IN  IF r.tag # "obj" THEN unknown
      ELSE IF k # 1 /\ r.nameWithOwner.tag = "str" THEN r.nameWithOwner.s
      ELSE IF r.name.tag = "str" THEN r.name.s
      ELSE unknown

\* every record of every group of a classifier's result
RecordsOf(f) ==
  Flatten([i \in 1..Len(grouped[f].groups) |-> grouped[f].groups[i].items])

-----------------------------------------------------------------------------
(* Claims *)

\* C1: whatever the five input files of an existing directory hold, the run
\* is never ended by an exception, and when it ends the document has been
\* written and the status is 0.
C1_NeverAborts ==
  (isDir /\ \A f \in Files :
              files[f].kind \in {"missing", "empty", "malformed", "list"})
    => /\ exc = "none"
       /\ (pc = "exit" => status = 0 /\ Len(written) = 1)

\* C2: the output is written at most once and as the last step: never for a
\* path that is no directory (status 1), and otherwise only once all five
\* files are loaded and classified and the document is rendered; a run that
\* reports status 0 has written exactly one file, a run that ended otherwise
\* has written none.
C2_WriteLast ==
  /\ Len(written) <= 1
  /\ (~isDir => written = <<>> /\ (Ended => status = 1))
  /\ (written # <<>> =>
        /\ isDir /\ exc = "none" /\ pc \in {"report", "exit"}
        /\ \A f \in Files : data[f].tag # "unset" /\ grouped[f].tag # "unset"
        /\ Rendered /\ written = <<markdown>>)
  /\ (Ended => \/ status = 0 /\ Len(written) = 1
               \/ status # 0 /\ written = <<>>)

\* a run that has written its one file and returned 0
C2_Witness == pc = "exit" /\ status = 0 /\ Len(written) = 1 /\ Rendered

\* the classifier of file k has been run: it returned or it raised
ClassifierRan(k) ==
  \/ pc = "process" /\ (idx > k \/ (idx = k /\ exc # "none"))
  \/ pc \in {"generate", "write", "report"}
  \/ pc = "exit" /\ isDir

\* within the group every record without a date is behind every record with
\* one
AbsentLast(items) ==
  \A a, b \in 1..Len(items) :
    a < b => ~(items[a].date.tag = "None" /\ items[b].date.tag # "None")

\* C3: once a classifier has run, it has returned its groups, and in each
\* group the records without a date come after all the records with one,
\* with or without a timezone offset on the dates.
C3_AbsentDatesLast ==
  \A k \in 1..5 :
    (ClassifierRan(k) /\ data[FileOrder[k]].tag = "list") =>
      LET g == grouped[FileOrder[k]]
      IN  /\ g.tag = "dict"
          /\ \A i \in 1..Len(g.groups) : AbsentLast(g.groups[i].items)

\* C4: load_json never raises and always returns a sequence of items: every
\* load that has been run left a list, the empty one for a file that is
\* missing, unreadable, empty or no JSON.
C4_LoadReturnsList ==
  /\ ~(pc = "load" /\ exc # "none")
  /\ \A f \in Files :
       /\ data[f].tag \in {"unset", "list"}
       /\ (data[f].tag # "unset"
             /\ files[f].kind \in {"missing", "unreadable", "empty", "malformed"})
            => data[f] = EmptyList

StrictlySorted(ss) == \A i, j \in 1..Len(ss) : i < j => StrLess(ss[i], ss[j])

\* C7: in each of the five sections the subheadings are the repository
\* identifiers of the input items, each once, in lexicographic order,
\* whatever the order of the items in the input.
C7_ReposSorted ==
  Rendered =>
    LET doc == Doc
    IN  \A k \in 1..5 :
          LET subs == Subheadings(doc.sections[k])
          IN  /\ StrictlySorted(subs)
              /\ {subs[i] : i \in 1..Len(subs)}
                   = {RepoId(k, Loaded(k)[i]) : i \in 1..Len(Loaded(k))}

\* a rendered section of three repositories that the input does not give in
\* sorted order
C7_Witness ==
  /\ Rendered
  /\ Len(Subheadings(Doc.sections[2])) = 3
  /\ ~StrLess(RepoId(2, Loaded(2)[1]), RepoId(2, Loaded(2)[2]))

\* the dates of the commit and issues-created records
PeriodRecords ==
  LET rs == RecordsOf("commits") \o RecordsOf("issues_created")
  IN  {rs[i].date : i \in {j \in 1..Len(rs) : rs[j].date.tag # "None"}}

C10_Totals ==
  Rendered =>
    LET doc == Doc
    IN  \A k \in 1..5 :
          LET body == doc.sections[k]
              n    == Len(Loaded(k))
          IN  /\ MetaValue(doc.lines, MetaKeys[k]) = Dec(n, 1)
              /\ HeadingTotal(doc.headings[k], k) = Dec(n, 1)
              /\ Len(RecordLines(body)) = n
              /\ \A i \in 1..Len(body) :
                   StartsWith(body[i], <<"#", "#", "#", " ">>) =>
                     i < Len(body) /\ StartsWith(body[i + 1], <<"-", " ">>)
              /\ (\E i \in 1..Len(body) : body[i] = <<"N", "o", "n", "e">>) <=> n = 0

\* a rendered document with an empty category, and another whose two
\* records lie in one group
C10_Witness ==
  /\ Rendered
  /\ \E k \in 1..5 : Len(Loaded(k)) = 0
  /\ LET doc == Doc
     IN  \E k \in 1..5 : /\ Len(RecordLines(doc.sections[k])) = 2
                         /\ Len(Subheadings(doc.sections[k])) = 1

\* the text of a field that may be absent or null, "" for either
TextOf(v) == IF v.tag = "str" THEN v.s ELSE <<>>

\* the record lines of a section that show the item of the given title
LinesOf(body, title) ==
  SelectSeq(body, LAMBDA l :
    StartsWith(l, <<"-", " ">> \o title)
      /\ (Len(l) = Len(title) + 2 \/ l[Len(title) + 3] = " "))

merged == <<"m", "e", "r", "g", "e", "d">>

\* C5: the line of a pull request item carries the tag [merged] exactly when
\* the item's raw state, lowercased, is "merged", in both pull request
\* sections; the merged flag of a record is true exactly when its displayed
\* state is "merged".
C5_MergedTag ==
  Rendered =>
    LET doc == Doc
    IN  \A k \in {4, 5} :
          /\ \A i \in 1..Len(Loaded(k)) :
               LET item == Loaded(k)[i]
                   ls   == LinesOf(doc.sections[k], item.title.s)
               IN  /\ ls # <<>>
                   /\ \A j \in 1..Len(ls) :
                        EndsWith(ls[j], <<" ", "[", "m", "e", "r", "g", "e", "d", "]">>)
                          <=> Lower(TextOf(item.state)) = merged
          /\ LET rs == RecordsOf(FileOrder[k])
             IN  \A i \in 1..Len(rs) : rs[i].merged <=> rs[i].state = merged

\* a rendered pull requests created section that shows both a state spelled
\* MERGED with the tag and a state merged_with_conflicts without it
C5_Witness ==
  /\ Rendered
  /\ \E i, j \in 1..Len(Loaded(4)) :
       /\ Loaded(4)[i].state = Str(<<"M", "E", "R", "G", "E", "D">>)
       /\ Loaded(4)[j].state = Str(<<"m", "e", "r", "g", "e", "d", "_", "w", "i", "t", "h", "_", "c", "o", "n", "f", "l", "i", "c", "t", "s">>)
  /\ \E l \in {RecordLines(Doc.sections[4])[i] :
                 i \in 1..Len(RecordLines(Doc.sections[4]))} :
       EndsWith(l, <<" ", "[", "m", "e", "r", "g", "e", "d", "]">>)

\* the first line of a commit message: the text before the first newline
FirstLine(item) == SplitLines(TextOf(item.commit.message))[1]

\* the rendered messages of the commits section: its record lines without
\* the "- " and without the date in parentheses of a dated commit
RenderedMessages(body) ==
  LET ls == RecordLines(body)
  IN  {IF EndsWith(ls[i], <<")">>) THEN SubSeq(ls[i], 3, Len(ls[i]) - 9)
       ELSE Drop(ls[i], 2) : i \in 1..Len(ls)}

Ellipsis == <<".", ".", ".">>

\* C6 as stated: a first line (the text before the first newline) of more
\* than 80 characters is rendered as its first 77 characters and "...", 80 in
\* all; a first line of at most 80 characters is rendered whole; no rendered
\* message is longer than 80 characters.
C6_TruncationOfFirstLine ==
  Rendered =>
    LET msgs == RenderedMessages(Doc.sections[1])
    IN  /\ \A i \in 1..Len(Loaded(1)) :
             LET fl == FirstLine(Loaded(1)[i])
             IN  IF Len(fl) > 80
                 THEN Take(fl, 77) \o Ellipsis \in msgs
                 ELSE Strip(fl) \in msgs
        /\ \A m \in msgs : Len(m) <= 80

\* C6 as amended: the limit applies to the first line after its surrounding
\* whitespace is trimmed.  A trimmed first line of more than 80 characters
\* is rendered as its first 77 characters and "...", 80 in all; a trimmed
\* first line of at most 80 characters is rendered whole; the rendered
\* messages are exactly these, none longer than 80 characters.
C6_TruncationOfTrimmedLine ==
  Rendered =>
    LET msgs == RenderedMessages(Doc.sections[1])
        want(item) ==
          LET fl == Strip(FirstLine(item))
          IN  IF Len(fl) > 80 THEN Take(fl, 77) \o Ellipsis ELSE fl
    IN  /\ msgs = {want(Loaded(1)[i]) : i \in 1..Len(Loaded(1))}
        /\ \A i \in 1..Len(Loaded(1)) :
             Len(Strip(FirstLine(Loaded(1)[i]))) > 80
               => Len(want(Loaded(1)[i])) = 80
        /\ \A m \in msgs : Len(m) <= 80

\* a rendered commits section with a message cut to 80 characters and one of
\* exactly 80 characters shown whole
C6_Witness ==
  /\ Rendered
  /\ \E i, j \in 1..Len(Loaded(1)) :
       /\ Len(Strip(FirstLine(Loaded(1)[i]))) > 80
       /\ Len(Strip(FirstLine(Loaded(1)[j]))) = 80
  /\ \E m \in RenderedMessages(Doc.sections[1]) :
       Len(m) = 80 /\ EndsWith(m, Ellipsis)

\* the body lines an item is to show: none without --include-body or for an
\* absent or blank body, else "  > " and the line, for each line of the body
\* without its leading and trailing blank space
BodyOf(item) ==
  IF include_body /\ Strip(TextOf(item.body)) # <<>>
  THEN LET ls == SplitLines(Strip(TextOf(item.body)))
       IN  AsSeq([i \in 1..Len(ls) |-> <<" ", " ", ">", " ">> \o ls[i]])
  ELSE <<>>

\* C9: body lines appear only with --include-body and only in the issues
\* created and pull requests created sections: there the line of each item
\* is followed by exactly the body lines of that item, in order; the other
\* three sections show none, and without the flag the document has none.
C9_BodyLines ==
  Rendered =>
    LET doc == Doc
    IN  /\ \A k \in {1, 3, 5} : BodyLines(doc.sections[k]) = <<>>
        /\ ~include_body => BodyLines(doc.lines) = <<>>
        /\ \A k \in {2, 4} :
             LET body == doc.sections[k]
             IN  /\ \A i \in 1..Len(Loaded(k)) :
                      LET item == Loaded(k)[i]
                          want == BodyOf(item)
                          at   == {n \in 1..Len(body) :
                                     LinesOf(<<body[n]>>, item.title.s) # <<>>}
                      IN  /\ at # {}
                          /\ \A n \in at :
                               /\ n + Len(want) < Len(body)
                               /\ SubSeq(body, n + 1, n + Len(want)) = want
                               /\ ~StartsWith(body[n + Len(want) + 1], <<" ", " ", ">", " ">>)
                 /\ \A n \in 1..Len(body) :
                      StartsWith(body[n], <<" ", " ", ">", " ">>) =>
                        n > 1 /\ (StartsWith(body[n - 1], <<" ", " ", ">", " ">>)
                                    \/ StartsWith(body[n - 1], <<"-", " ">>))

\* a document rendered with --include-body in which a pull request shows the
\* lines of a body that had blank lines around it, and an item with a blank
\* body shows none
C9_Witness ==
  /\ Rendered /\ include_body
  /\ \E i, j \in 1..Len(Loaded(4)) :
       /\ Len(BodyOf(Loaded(4)[i])) = 3
       /\ Loaded(4)[j].body = Str(<<" ", "\n", "\t">>)
  /\ Len(BodyLines(Doc.sections[4])) >= 3
  /\ Len(Loaded(3)) > 0 /\ Len(Loaded(5)) > 0

=============================================================================
